---- MODULE Spec2Model ----
(***************************************************************************)
(* Model of src/app.py: validate_reports (the rule engine of the vessel    *)
(* report validator) and the part of main that feeds it and reports the    *)
(* result.                                                                 *)
(*                                                                         *)
(* A dataset (pandas DataFrame) is a record                                *)
(*     [columns |-> sequence of column names,                              *)
(*      rows    |-> sequence of rows, a row being a function from the      *)
(*                  column names to cells].                                *)
(* A cell is [k, n, d, s]: k = "nan" (missing), k = "num" (the number n/d, *)
(* d > 0, in lowest terms) or k = "str" (text, the sequence of characters  *)
(* s).  Numbers are exact rationals: the model has no floating-point       *)
(* rounding.  Text is written in the alphabet of digits, "-", ",", " " and *)
(* letters; a decimal point and exponents are outside the alphabet.        *)
(* The non-ASCII characters of the source's strings are written in ASCII:  *)
(* the en dash of "150-200" and "0-20" as "-", the plus-minus sign as      *)
(* "+-", and the degree sign of the exhaust column names is dropped.       *)
(***************************************************************************)
EXTENDS Integers, Sequences, FiniteSets, TLC

VARIABLES pc, uploaded, df, failed, prev, runs

vars == <<pc, uploaded, df, failed, prev, runs>>

(***************************************************************************)
(* Bounds                                                                  *)
(***************************************************************************)
\* number of exhaust-temperature units modelled (the source has 16)
MaxUnit == 3
\* largest number of rows of a multi-row dataset
MaxRows == 2

(***************************************************************************)
(* Cells and exact arithmetic                                              *)
(***************************************************************************)
Abs(x) == IF x < 0 THEN -x ELSE x

RECURSIVE Gcd(_, _)
Gcd(a, b) == IF b = 0 THEN a ELSE Gcd(b, a % b)

NaN == [k |-> "nan", n |-> 0, d |-> 1, s |-> <<>>]

\* the number n/d (d # 0), in lowest terms with a positive denominator
Rat(n, d) ==
    LET g  == Gcd(Abs(n), Abs(d))
        sg == IF d < 0 THEN -1 ELSE 1
    IN  [k |-> "num", n |-> sg * (n \div g), d |-> Abs(d) \div g, s |-> <<>>]

Num(n) == [k |-> "num", n |-> n, d |-> 1, s |-> <<>>]

Str(s) == [k |-> "str", n |-> 0, d |-> 1, s |-> s]

IsNum(c) == c.k = "num"

\* pd.notna
notna(c) == c.k # "nan"

\* float arithmetic: NaN in, NaN out
FAdd(a, b) == IF IsNum(a) /\ IsNum(b) THEN Rat(a.n * b.d + b.n * a.d, a.d * b.d) ELSE NaN

FSub(a, b) == IF IsNum(a) /\ IsNum(b) THEN Rat(a.n * b.d - b.n * a.d, a.d * b.d) ELSE NaN

FMul(a, b) == IF IsNum(a) /\ IsNum(b) THEN Rat(a.n * b.n, a.d * b.d) ELSE NaN

\* x / 0 in a float column is inf, 0 / 0 is NaN; the cell kind "inf" stands
\* for both signs of infinity
FDiv(a, b) ==
    IF IsNum(a) /\ IsNum(b)
    THEN IF b.n # 0 THEN Rat(a.n * b.d, a.d * b.n)
         ELSE IF a.n = 0 THEN NaN
         ELSE [k |-> "inf", n |-> 0, d |-> 1, s |-> <<>>]
    ELSE NaN

FAbs(a) == IF IsNum(a) THEN [a EXCEPT !.n = Abs(a.n)] ELSE a

\* comparisons of numbers; False when an operand is NaN, as in Python
FLe(a, b) == IsNum(a) /\ IsNum(b) /\ a.n * b.d <= b.n * a.d

FLt(a, b) == IsNum(a) /\ IsNum(b) /\ a.n * b.d < b.n * a.d

FGt(a, b) == FLt(b, a)

\* Series.replace(0, np.nan)
replace0(c) == IF IsNum(c) /\ c.n = 0 THEN NaN ELSE c

\* Series.fillna(0)
fillna0(c) == IF c.k = "nan" THEN Num(0) ELSE c

(***************************************************************************)
(* Text                                                                    *)
(***************************************************************************)
Digits == <<"0", "1", "2", "3", "4", "5", "6", "7", "8", "9">>

IsDigit(ch) == \E i \in 1..10 : Digits[i] = ch

DigitVal(ch) == (CHOOSE i \in 1..10 : Digits[i] = ch) - 1

\* str(n) for a natural number n
RECURSIVE NatStr(_)
NatStr(n) == IF n < 10 THEN <<Digits[n + 1]>> ELSE NatStr(n \div 10) \o <<Digits[(n % 10) + 1]>>

IntStr(n) == IF n < 0 THEN <<"-">> \o NatStr(-n) ELSE NatStr(n)

\* .astype(str) of one cell; a number of the numeric columns is an integer
astype_str(c) ==
    IF c.k = "nan" THEN <<"n", "a", "n">>
    ELSE IF c.k = "num" THEN IntStr(c.n)
    ELSE c.s

\* .str.replace(",", "")
str_replace_comma(s) == SelectSeq(s, LAMBDA ch : ch # ",")

RECURSIVE lstrip(_)
lstrip(s) == IF s # <<>> /\ Head(s) = " " THEN lstrip(Tail(s)) ELSE s

RECURSIVE rstrip(_)
rstrip(s) == IF s # <<>> /\ s[Len(s)] = " " THEN rstrip(SubSeq(s, 1, Len(s) - 1)) ELSE s

\* str.strip()
strip(s) == rstrip(lstrip(s))

\* .replace(["", "nan", "None"], np.nan): TRUE when the text is a placeholder
IsPlaceholder(s) == s \in {<<>>, <<"n", "a", "n">>, <<"N", "o", "n", "e">>}

RECURSIVE ParseNat(_)
ParseNat(s) == IF s = <<>> THEN 0 ELSE 10 * ParseNat(SubSeq(s, 1, Len(s) - 1)) + DigitVal(s[Len(s)])

AllDigits(s) == s # <<>> /\ \A i \in 1..Len(s) : IsDigit(s[i])

\* pd.to_numeric(errors="coerce") of one text: an optionally signed run of
\* digits is its value, anything else is NaN
to_numeric(s) ==
    IF AllDigits(s) THEN Num(ParseNat(s))
    ELSE IF s # <<>> /\ Head(s) = "-" /\ AllDigits(Tail(s)) THEN Num(-ParseNat(Tail(s)))
    ELSE NaN

\* lines 26-33 for one cell of a numeric column
CleanCell(c) ==
    LET t == strip(str_replace_comma(astype_str(c)))
    IN  fillna0(IF IsPlaceholder(t) THEN NaN ELSE to_numeric(t))

(***************************************************************************)
(* Datasets                                                                *)
(***************************************************************************)
Range(f) == {f[i] : i \in DOMAIN f}

\* col in df.columns
HasCol(d, col) == col \in Range(d.columns)

\* df[col] = values: an existing column is overwritten in place, a new one
\* is appended as the last column
SetColumn(d, col, values) ==
    [columns |-> IF HasCol(d, col) THEN d.columns ELSE Append(d.columns, col),
     rows    |-> [i \in DOMAIN d.rows |->
                    [c \in (DOMAIN d.rows[i]) \cup {col} |->
                        IF c = col THEN values[i] ELSE d.rows[i][c]]]]

\* row.get(col, default)
RowGet(row, col, default) == IF col \in DOMAIN row THEN row[col] ELSE default

ExhCol(j) == "Exh. Temp [C] (Main Engine Unit " \o ToString(j) \o ")"

numeric_cols ==
    <<"Average Load [kW]",
      "ME Rhrs (From Last Report)",
      "Avg. Speed",
      "Fuel Cons. [MT] (ME Cons 1)",
      "Fuel Cons. [MT] (ME Cons 2)",
      "Fuel Cons. [MT] (ME Cons 3)">>

context_cols ==
    <<"Ship Name", "IMO_No", "Report Type", "Start Date", "Start Time",
      "End Date", "End Time", "Voyage Number", "Time Zone",
      "Distance - Ground [NM]", "Time Shift", "Distance - Sea [NM]",
      "Average Load [kW]", "Average RPM", "Average Load [%]",
      "ME Rhrs (From Last Report)">>

\* the columns the SFOC expression of lines 36-45 indexes with df[...]
SfocInputs ==
    {"Fuel Cons. [MT] (ME Cons 1)", "Fuel Cons. [MT] (ME Cons 2)",
     "Fuel Cons. [MT] (ME Cons 3)", "Average Load [kW]",
     "ME Rhrs (From Last Report)"}

\* lines 24-33: every numeric column that is present is coerced, in place
CleanNumeric(d) ==
    [columns |-> d.columns,
     rows    |-> [i \in DOMAIN d.rows |->
                    [c \in DOMAIN d.rows[i] |->
                        IF c \in Range(numeric_cols)
                        THEN CleanCell(d.rows[i][c])
                        ELSE d.rows[i][c]]]]

\* SfocOf without the replace(0, np.nan) and fillna(0) guards
SfocOfUnguarded(row) ==
    FDiv(FMul(FAdd(FAdd(row["Fuel Cons. [MT] (ME Cons 1)"],
                        row["Fuel Cons. [MT] (ME Cons 2)"]),
                   row["Fuel Cons. [MT] (ME Cons 3)"]),
              Num(1000000)),
         FMul(row["Average Load [kW]"], row["ME Rhrs (From Last Report)"]))

\* lines 36-46 for one row of the cleaned dataset
SfocOf(row) ==
    fillna0(
        FDiv(FMul(FAdd(FAdd(row["Fuel Cons. [MT] (ME Cons 1)"],
                            row["Fuel Cons. [MT] (ME Cons 2)"]),
                       row["Fuel Cons. [MT] (ME Cons 3)"]),
                  Num(1000000)),
             FMul(replace0(row["Average Load [kW]"]),
                  replace0(row["ME Rhrs (From Last Report)"]))))

(***************************************************************************)
(* The rules, lines 51-99.  A rule yields the messages it appends to the   *)
(* row's reason list and the columns it adds to fail_columns.              *)
(***************************************************************************)
AtSea == <<"A", "t", " ", "S", "e", "a">>

AtPort == <<"A", "t", " ", "P", "o", "r", "t">>

AtAnchorage == <<"A", "t", " ", "A", "n", "c", "h", "o", "r", "a", "g", "e">>

MsgSfocSea == "SFOC out of 150-200 at sea with ME Rhrs > 12"

MsgSfocPort == "SFOC not 0 at port/anchorage"

MsgSpeedSea == "Avg. Speed out of 0-20 at sea with ME Rhrs > 12"

MsgSpeedPort == "Avg. Speed not 0 at port"

MsgExh(j) == "Exhaust temp deviation > +-50 from avg at Unit " \o ToString(j)

MsgRhrs == "ME Rhrs > 25"

NoFail == [reason |-> <<>>, cols |-> {}]

\* str(cell).strip() of line 53
report_type_of(row) ==
    LET c == RowGet(row, "Report Type", Str(<<>>))
    IN  strip(IF c.k = "str" THEN c.s ELSE astype_str(c))

\* the guard shared by rules 1-3: report_type == "At Sea" and ME_Rhrs > 12
SeaGuard(report_type, ME_Rhrs) == report_type = AtSea /\ FGt(ME_Rhrs, Num(12))

\* Rule1 with the at-sea interval open: 150 < sfoc < 200
Rule1Open(report_type, ME_Rhrs, sfoc) ==
    IF SeaGuard(report_type, ME_Rhrs)
    THEN IF ~(FLt(Num(150), sfoc) /\ FLt(sfoc, Num(200)))
         THEN [reason |-> <<MsgSfocSea>>, cols |-> {"SFOC"}]
         ELSE NoFail
    ELSE IF report_type \in {AtPort, AtAnchorage}
    THEN IF FGt(FAbs(sfoc), Rat(1, 10000))
         THEN [reason |-> <<MsgSfocPort>>, cols |-> {"SFOC"}]
         ELSE NoFail
    ELSE NoFail

\* lines 58-66
Rule1(report_type, ME_Rhrs, sfoc) ==
    IF SeaGuard(report_type, ME_Rhrs)
    THEN IF ~(FLe(Num(150), sfoc) /\ FLe(sfoc, Num(200)))
         THEN [reason |-> <<MsgSfocSea>>, cols |-> {"SFOC"}]
         ELSE NoFail
    ELSE IF report_type \in {AtPort, AtAnchorage}
    THEN IF FGt(FAbs(sfoc), Rat(1, 10000))
         THEN [reason |-> <<MsgSfocPort>>, cols |-> {"SFOC"}]
         ELSE NoFail
    ELSE NoFail

\* lines 68-76
Rule2(report_type, ME_Rhrs, avg_speed) ==
    IF SeaGuard(report_type, ME_Rhrs)
    THEN IF ~(FLe(Num(0), avg_speed) /\ FLe(avg_speed, Num(20)))
         THEN [reason |-> <<MsgSpeedSea>>, cols |-> {"Avg. Speed"}]
         ELSE NoFail
    ELSE IF report_type = AtPort
    THEN IF FGt(FAbs(avg_speed), Rat(1, 10000))
         THEN [reason |-> <<MsgSpeedPort>>, cols |-> {"Avg. Speed"}]
         ELSE NoFail
    ELSE NoFail

\* lines 80-84 and 105-109: the exhaust columns present, by unit number
RECURSIVE ExhaustColsUpTo(_, _)
ExhaustColsUpTo(d, j) ==
    IF j = 0 THEN <<>>
    ELSE ExhaustColsUpTo(d, j - 1) \o (IF HasCol(d, ExhCol(j)) THEN <<ExhCol(j)>> ELSE <<>>)

exhaust_cols(d) == ExhaustColsUpTo(d, MaxUnit)

\* pd.notna(val) and val != 0
Reading(c) == notna(c) /\ ~(IsNum(c) /\ c.n = 0)

RECURSIVE SumCells(_)
SumCells(s) == IF s = <<>> THEN Num(0) ELSE FAdd(Head(s), SumCells(Tail(s)))

\* np.mean
mean(s) == FDiv(SumCells(s), Num(Len(s)))

\* line 88: the number enumerate(exhaust_cols, start=1) gives the column at
\* position p of exhaust_cols
UnitNumber(cols, p) == p

\* lines 88-92, from position p of exhaust_cols on
RECURSIVE Rule3From(_, _, _, _)
Rule3From(row, cols, avg_temp, p) ==
    IF p > Len(cols) THEN NoFail
    ELSE LET val  == row[cols[p]]
             rest == Rule3From(row, cols, avg_temp, p + 1)
         IN  IF Reading(val) /\ FGt(FAbs(FSub(val, avg_temp)), Num(50))
             THEN [reason |-> <<MsgExh(UnitNumber(cols, p))>> \o rest.reason,
                   cols   |-> {cols[p]} \cup rest.cols]
             ELSE rest

\* Rule3 guarded by ME_Rhrs > 12 alone, whatever the report type
Rule3AnyType(report_type, ME_Rhrs, row, cols) ==
    IF FGt(ME_Rhrs, Num(12))
    THEN LET temps == SelectSeq([p \in 1..Len(cols) |-> row[cols[p]]], Reading)
         IN  IF temps # <<>> THEN Rule3From(row, cols, mean(temps), 1) ELSE NoFail
    ELSE NoFail

\* lines 78-92
Rule3(report_type, ME_Rhrs, row, cols) ==
    IF SeaGuard(report_type, ME_Rhrs)
    THEN LET temps == SelectSeq([p \in 1..Len(cols) |-> row[cols[p]]], Reading)
         IN  IF temps # <<>> THEN Rule3From(row, cols, mean(temps), 1) ELSE NoFail
    ELSE NoFail

\* Rule4 with the limit as the sidebar words it: ME_Rhrs >= 25 fails
Rule4AtLeast(ME_Rhrs) ==
    IF FLe(Num(25), ME_Rhrs)
    THEN [reason |-> <<MsgRhrs>>, cols |-> {"ME Rhrs (From Last Report)"}]
    ELSE NoFail

\* lines 94-97
Rule4(ME_Rhrs) ==
    IF FGt(ME_Rhrs, Num(25))
    THEN [reason |-> <<MsgRhrs>>, cols |-> {"ME Rhrs (From Last Report)"}]
    ELSE NoFail

\* "; ".join(reason): the messages with a "; " between neighbours
RECURSIVE Join(_)
Join(reason) ==
    IF Len(reason) <= 1 THEN reason
    ELSE <<Head(reason), "; ">> \o Join(Tail(reason))

\* lines 52-97: the reason list of one row and the columns its rules add
\* to fail_columns
RuleResults(d, row) ==
    LET report_type == report_type_of(row)
        ME_Rhrs     == RowGet(row, "ME Rhrs (From Last Report)", Num(0))
        sfoc        == RowGet(row, "SFOC", Num(0))
        avg_speed   == RowGet(row, "Avg. Speed", Num(0))
        r1 == Rule1(report_type, ME_Rhrs, sfoc)
        r2 == Rule2(report_type, ME_Rhrs, avg_speed)
        r3 == Rule3(report_type, ME_Rhrs, row, exhaust_cols(d))
        r4 == Rule4(ME_Rhrs)
    IN  [reason |-> r1.reason \o r2.reason \o r3.reason \o r4.reason,
         cols   |-> r1.cols \cup r2.cols \cup r3.cols \cup r4.cols]

(***************************************************************************)
(* The report duration and the auxiliary-engine rule of the specification  *)
(* (sections 4.1 and 4.2, rule 5).  src/app.py computes neither: they are  *)
(* written here from the specification, to state what it says of a row.    *)
(* The start and end instants are numbers of hours; one auxiliary-engine   *)
(* column and one sub-consumption column stand for the 6 and the 10.       *)
(***************************************************************************)
AuxCol == "A.E. 1 Rhrs (From Last Report)"

SubConsCol == "Tank Cleaning"

MsgAux == "Aux engine running hours high with no sub-consumption reported"

\* (end instant - start instant) in hours + time shift; 0 when an instant
\* is missing
ReportDuration(row) ==
    LET s == RowGet(row, "Start Time", NaN)
        e == RowGet(row, "End Time", NaN)
        t == RowGet(row, "Time Shift", Num(0))
    IN  IF IsNum(s) /\ IsNum(e) THEN e.n - s.n + (IF IsNum(t) THEN t.n ELSE 0) ELSE 0

\* the five sub-conditions of rule 5
AuxConditions(row) ==
    LET dur == ReportDuration(row)
        aux == RowGet(row, AuxCol, Num(0))
        pct == RowGet(row, "Average Load [%]", Num(0))
        sub == RowGet(row, SubConsCol, Num(0))
    IN  /\ report_type_of(row) = AtSea
        /\ dur > 0
        /\ IsNum(aux) /\ 100 * aux.n > 125 * dur * aux.d
        /\ FGt(pct, Num(40))
        /\ IsNum(sub) /\ sub.n = 0

\* EvalRow with rule 5 of the specification applied after rules 1-4
EvalRowWithRule5(d, row) ==
    LET r == RuleResults(d, row)
    IN  [reason |-> Str(Join(r.reason \o (IF AuxConditions(row) THEN <<MsgAux>> ELSE <<>>))),
         cols   |-> r.cols]

\* EvalRow starting from the Reason the row already has instead of from an
\* empty list
EvalRowAppending(d, row) ==
    LET r   == RuleResults(d, row)
        old == RowGet(row, "Reason", Str(<<>>)).s
        new == Join(r.reason)
    IN  [reason |-> Str(IF old = <<>> THEN new
                        ELSE IF new = <<>> THEN old
                        ELSE old \o <<"; ">> \o new),
         cols   |-> r.cols]

\* one iteration of the loop of lines 51-99: line 99 joins a fresh list
EvalRow(d, row) ==
    LET r == RuleResults(d, row)
    IN  [reason |-> Str(Join(r.reason)), cols |-> r.cols]

(***************************************************************************)
(* validate_reports                                                        *)
(***************************************************************************)
EmptyDF == [columns |-> <<>>, rows |-> <<>>]

EmptyFailed == [columns |-> <<>>, index |-> <<>>, rows |-> <<>>]

\* lines 36-46: the dataset with its SFOC column (the inputs are present)
WithSfoc(d) == SetColumn(d, "SFOC", [i \in DOMAIN d.rows |-> SfocOf(d.rows[i])])

\* the loop of lines 51-99 over the dataset that has its SFOC column
EvalRows(d) == [i \in DOMAIN d.rows |-> EvalRow(d, d.rows[i])]

\* line 49 and the fail_columns.add calls: the set built over all rows
fail_columns(d) ==
    LET c == CleanNumeric(d)
    IN  IF SfocInputs \subseteq Range(d.columns)
        THEN LET e == EvalRows(WithSfoc(c)) IN UNION {e[i].cols : i \in DOMAIN e}
        ELSE {}

\* list(fail_columns): a Python set is iterated in an order the program
\* does not control, so every order is possible
RECURSIVE Orderings(_)
Orderings(S) ==
    IF S = {} THEN {<<>>}
    ELSE UNION {{<<x>> \o t : t \in Orderings(S \ {x})} : x \in S}

\* Unique without the seen set: a repeated column is kept each time
RECURSIVE UniqueRepeating(_, _, _)
UniqueRepeating(cols, seen, have) ==
    IF cols = <<>> THEN <<>>
    ELSE IF Head(cols) \in have
    THEN <<Head(cols)>> \o UniqueRepeating(Tail(cols), seen, have)
    ELSE UniqueRepeating(Tail(cols), seen, have)

\* lines 134-139: first occurrences of the columns that failed has
RECURSIVE Unique(_, _, _)
Unique(cols, seen, have) ==
    IF cols = <<>> THEN <<>>
    ELSE IF Head(cols) \notin seen /\ Head(cols) \in have
    THEN <<Head(cols)>> \o Unique(Tail(cols), seen \cup {Head(cols)}, have)
    ELSE Unique(Tail(cols), seen, have)

\* lines 142-144
ShipNameFirst(cols) ==
    IF "Ship Name" \in Range(cols)
    THEN <<"Ship Name">> \o SelectSeq(cols, LAMBDA c : c # "Ship Name")
    ELSE cols

\* FailedIndex without the filter: every row is kept
FailedIndexAll(d) == [i \in 1..Len(d.rows) |-> i]

\* line 102: the positions of the rows kept by df[df["Reason"] != ""]
FailedIndex(d) ==
    SelectSeq([i \in 1..Len(d.rows) |-> i], LAMBDA i : d.rows[i]["Reason"] # Str(<<>>))

\* lines 101-146: the failed view of the annotated dataset d
FailedView(d, order) ==
    LET idx  == FailedIndex(d)
        keep == context_cols \o exhaust_cols(d) \o order \o <<"Reason">>
        cols == ShipNameFirst(Unique(keep, {}, Range(d.columns)))
    IN  [columns |-> cols,
         index   |-> idx,
         rows    |-> [k \in 1..Len(idx) |-> [c \in Range(cols) |-> d.rows[idx[k]][c]]]]

\* validate_reports(df), lines 12-148; order is the iteration order of
\* fail_columns.  The dataset is changed in place, so a KeyError raised by
\* line 38-44 leaves it with its numeric columns coerced.
validate_reports(d, order) ==
    LET c == CleanNumeric(d)
    IN  IF ~(SfocInputs \subseteq Range(d.columns))
        THEN [status |-> "KeyError", df |-> c, failed |-> EmptyFailed]
        ELSE LET s == WithSfoc(c)
                 e == EvalRows(s)
                 a == SetColumn(s, "Reason", [i \in DOMAIN e |-> e[i].reason])
             IN  [status |-> "ok", df |-> a, failed |-> FailedView(a, order)]

(***************************************************************************)
(* The uploaded datasets.  A spreadsheet has its columns in SheetColumns   *)
(* order, without the columns it lacks.  The rows are the base row (which  *)
(* passes every rule) changed in one group of fields at a time.            *)
(***************************************************************************)
RECURSIVE UnitColsUpTo(_, _)
UnitColsUpTo(S, j) ==
    IF j = 0 THEN <<>>
    ELSE UnitColsUpTo(S, j - 1) \o (IF j \in S THEN <<ExhCol(j)>> ELSE <<>>)

Units == 1..MaxUnit

\* the sheet with the exhaust columns of the units in S and without the
\* columns in missing
SheetColumns(S, missing) ==
    SelectSeq(
        <<"Report Type", "Ship Name", "Start Time", "End Time", "Time Shift",
          "Average Load [kW]", "Average Load [%]", "ME Rhrs (From Last Report)",
          "Avg. Speed", "Fuel Cons. [MT] (ME Cons 1)", "Fuel Cons. [MT] (ME Cons 2)",
          "Fuel Cons. [MT] (ME Cons 3)">>
        \o UnitColsUpTo(S, MaxUnit) \o <<AuxCol, SubConsCol>>,
        LAMBDA c : c \notin missing)

BaseVal(c) ==
    CASE c = "Report Type" -> Str(AtSea)
      [] c = "Ship Name" -> Str(<<"A">>)
      [] c = "Start Time" -> Num(0)
      [] c = "End Time" -> Num(10)
      [] c = "Time Shift" -> Num(0)
      [] c = "Average Load [kW]" -> Num(100000)
      [] c = "Average Load [%]" -> Num(50)
      [] c = "ME Rhrs (From Last Report)" -> Num(13)
      [] c = "Avg. Speed" -> Num(10)
      [] c = "Fuel Cons. [MT] (ME Cons 1)" -> Num(195)
      [] c = "Fuel Cons. [MT] (ME Cons 2)" -> Num(0)
      [] c = "Fuel Cons. [MT] (ME Cons 3)" -> Num(0)
      [] c = AuxCol -> Num(0)
      [] c = SubConsCol -> Num(0)
      [] OTHER -> Num(300)

\* the row over the columns cols that has the cells of o where o has one
MakeRow(cols, o) ==
    [c \in Range(cols) |-> IF c \in DOMAIN o THEN o[c] ELSE BaseVal(c)]

OneRow(cols, o) == [columns |-> cols, rows |-> <<MakeRow(cols, o)>>]

TypeValues ==
    {Str(AtSea), Str(<<" ">> \o AtSea \o <<" ">>), Str(AtPort), Str(AtAnchorage)}

LoadValues == {Num(0), Num(100000), Str(<<"1", "0", "0", ",", "0", "0", "0">>), NaN}

RhrsValues == {Num(0), Num(12), Num(13), Num(25), Num(26)}

Cons1Values == {Num(0), Num(195), Num(260)}

Cons2Values == {Num(0), Num(13), Str(<<"N", "o", "n", "e">>)}

SpeedValues == {Num(-1), Num(0), Num(10), Num(20), Num(21)}

TempValues == {NaN, Num(0), Num(300), Num(450)}

\* report type, load, running hours and fuel consumption vary
SfocSheets ==
    {OneRow(SheetColumns(Units, {}),
            ("Report Type" :> t) @@ ("Average Load [kW]" :> l)
            @@ ("ME Rhrs (From Last Report)" :> h)
            @@ ("Fuel Cons. [MT] (ME Cons 1)" :> c1)
            @@ ("Fuel Cons. [MT] (ME Cons 2)" :> c2)) :
        t \in TypeValues, l \in LoadValues, h \in RhrsValues,
        c1 \in Cons1Values, c2 \in Cons2Values}

\* report type, running hours, speed and fuel consumption vary
SpeedSheets ==
    {OneRow(SheetColumns(Units, {}),
            ("Report Type" :> t) @@ ("ME Rhrs (From Last Report)" :> h)
            @@ ("Avg. Speed" :> v) @@ ("Fuel Cons. [MT] (ME Cons 1)" :> c1)) :
        t \in TypeValues, h \in RhrsValues, v \in SpeedValues,
        c1 \in {Num(195), Num(260)}}

\* the exhaust columns present and their readings vary
ExhaustSheets ==
    UNION {
        {OneRow(SheetColumns(S, {}),
                [c \in {ExhCol(j) : j \in S} |-> r[CHOOSE j \in S : c = ExhCol(j)]]
                @@ ("Report Type" :> t) @@ ("ME Rhrs (From Last Report)" :> h)) :
            r \in [S -> TempValues], t \in {Str(AtSea), Str(AtPort)},
            h \in {Num(12), Num(13)}} :
        S \in SUBSET Units}

\* the report window, the auxiliary-engine hours, the load percentage and
\* the sub-consumption vary
AuxSheets ==
    {OneRow(SheetColumns(Units, {}),
            ("Report Type" :> t) @@ ("ME Rhrs (From Last Report)" :> h)
            @@ ("End Time" :> e) @@ (AuxCol :> a) @@ ("Average Load [%]" :> p)
            @@ (SubConsCol :> s)) :
        t \in {Str(AtSea), Str(AtPort)}, h \in {Num(13), Num(26)},
        e \in {NaN, Num(10)}, a \in {Num(0), Num(13)}, p \in {Num(40), Num(50)},
        s \in {Num(0), Num(1)}}

\* one expected column is absent from the sheet
ShortSheets ==
    {OneRow(SheetColumns(Units, {m}),
            ("Report Type" :> t) @@ ("ME Rhrs (From Last Report)" :> h)
            @@ ("Avg. Speed" :> v)) :
        m \in Range(numeric_cols) \cup {"Report Type", "Ship Name"},
        t \in {Str(AtSea), Str(AtPort)}, h \in {Num(13), Num(26)},
        v \in {Num(10), Num(21)}}

\* the rows of the sheets that have several rows
BatchRows ==
    {MakeRow(SheetColumns(Units, {}), o) :
        o \in {<<>>,
               ("Fuel Cons. [MT] (ME Cons 1)" :> Num(0)),
               ("Report Type" :> Str(AtPort)),
               ("Average Load [kW]" :> Str(<<"1", "0", "0", ",", "0", "0", "0">>)),
               ("ME Rhrs (From Last Report)" :> Num(26))}}

RECURSIVE SeqsUpTo(_, _)
SeqsUpTo(S, n) ==
    IF n = 0 THEN {<<>>}
    ELSE LET shorter == SeqsUpTo(S, n - 1)
         IN  shorter \cup {Append(q, x) : q \in shorter, x \in S}

BatchSheets ==
    {[columns |-> SheetColumns(Units, {}), rows |-> q] : q \in SeqsUpTo(BatchRows, MaxRows)}

Datasets ==
    SfocSheets \cup SpeedSheets \cup ExhaustSheets \cup AuxSheets \cup ShortSheets
    \cup BatchSheets

(***************************************************************************)
(* main: the upload, the validation run, and a run of validate_reports on  *)
(* the annotated dataset it returned                                       *)
(***************************************************************************)
Init ==
    /\ pc = "idle"
    /\ uploaded = EmptyDF
    /\ df = EmptyDF
    /\ failed = EmptyFailed
    /\ prev = [df |-> EmptyDF, failed |-> EmptyFailed]
    /\ runs = 0

\* line 285: df = pd.read_excel(uploaded_file, sheet_name="All Reports")
ReadExcel ==
    /\ pc = "idle"
    /\ \E data \in Datasets : uploaded' = data
    /\ pc' = "loaded"
    /\ UNCHANGED <<df, failed, prev, runs>>

\* the effect of one call validate_reports(d) on the program's state
Run(d) ==
    \E order \in Orderings(fail_columns(d)) :
        LET r == validate_reports(d, order)
        IN  /\ pc' = IF r.status = "ok" THEN "done" ELSE "error"
            /\ df' = r.df
            /\ failed' = r.failed
            /\ prev' = [df |-> df, failed |-> failed]
            /\ runs' = runs + 1
            /\ UNCHANGED uploaded

\* line 298: failed, df_with_sfoc = validate_reports(df.copy()); an
\* exception is caught by the handler of line 518
Validate ==
    /\ pc = "loaded"
    /\ Run(uploaded)

\* validate_reports applied to the annotated dataset it returned
Revalidate ==
    /\ pc = "done"
    /\ runs = 1
    /\ Run(df)

Next == ReadExcel \/ Validate \/ Revalidate

Spec == Init /\ [][Next]_vars

(***************************************************************************)
(* main: the metrics shown after the validation run (lines 303-310)        *)
(***************************************************************************)
\* line 309: ((len(df) - len(failed)) / len(df) * 100) if len(df) > 0 else 0
pass_rate(n_df, n_failed) ==
    IF n_df > 0 THEN FMul(FDiv(Num(n_df - n_failed), Num(n_df)), Num(100)) ELSE Num(0)

\* format(x, ".1f") of a number x >= 0: the nearest tenth, a tie going to
\* the even tenth, written with one digit after the point
format_1f(x) ==
    LET q      == (10 * x.n) \div x.d
        r2     == 2 * ((10 * x.n) % x.d)
        tenths == IF r2 > x.d \/ (r2 = x.d /\ q % 2 = 1) THEN q + 1 ELSE q
    IN  NatStr(tenths \div 10) \o <<".">> \o NatStr(tenths % 10)

\* line 310: st.metric("Pass Rate", f"{pass_rate:.1f}%"), of the uploaded
\* dataset and the failed view that the run of line 298 returned
PassRateMetric == format_1f(pass_rate(Len(uploaded.rows), Len(failed.rows))) \o <<"%">>

(***************************************************************************)
(* What the claims speak of                                                *)
(***************************************************************************)
Rows == DOMAIN df.rows

\* the messages of row i's Reason
ReasonOf(i) == df.rows[i]["Reason"].s

Contains(i, m) == \E k \in DOMAIN ReasonOf(i) : ReasonOf(i)[k] = m

\* the text is "At Sea" / "At Port" with blanks around it only
IsPadded(s, word) ==
    \E a \in 1..Len(s), b \in 1..Len(s) :
        /\ SubSeq(s, a, b) = word
        /\ \A k \in 1..Len(s) : (k < a \/ k > b) => s[k] = " "

TypeIs(i, word) ==
    /\ "Report Type" \in DOMAIN uploaded.rows[i]
    /\ uploaded.rows[i]["Report Type"].k = "str"
    /\ IsPadded(uploaded.rows[i]["Report Type"].s, word)

\* the number a cell of a numeric column stands for: the texts of the
\* uploaded sheets are "100,000" and the placeholder "None"
Coerced(c) ==
    IF c.k = "num" THEN c.n
    ELSE IF c = Str(<<"1", "0", "0", ",", "0", "0", "0">>) THEN 100000
    ELSE 0

\* the coerced value of column col of uploaded row i, 0 for an absent column
Value(i, col) ==
    IF col \in DOMAIN uploaded.rows[i] THEN Coerced(uploaded.rows[i][col]) ELSE 0

Load(i) == Value(i, "Average Load [kW]")

Rhrs(i) == Value(i, "ME Rhrs (From Last Report)")

Speed(i) == Value(i, "Avg. Speed")

FuelSum(i) ==
    Value(i, "Fuel Cons. [MT] (ME Cons 1)") + Value(i, "Fuel Cons. [MT] (ME Cons 2)")
    + Value(i, "Fuel Cons. [MT] (ME Cons 3)")

Sfoc(i) == df.rows[i]["SFOC"]

\* SFOC of row i is the number q
SfocIs(i, q) == Sfoc(i).k = "num" /\ Sfoc(i).n = q * Sfoc(i).d

SfocOutside(i) ==
    Sfoc(i).k # "num" \/ Sfoc(i).n < 150 * Sfoc(i).d \/ Sfoc(i).n > 200 * Sfoc(i).d

\* C1: after validate_reports, SFOC is 0 when the coerced load or running
\* hours is 0 (a number, never infinite or NaN), and otherwise
\* (ME Cons 1 + 2 + 3) x 1,000,000 / (load x running hours) of that row.
C1_SfocFormula ==
    pc = "done" =>
        \A i \in Rows :
            /\ Sfoc(i).k = "num"
            /\ IF Load(i) = 0 \/ Rhrs(i) = 0
               THEN Sfoc(i).n = 0
               ELSE Sfoc(i).n * Load(i) * Rhrs(i) = FuelSum(i) * 1000000 * Sfoc(i).d

\* a row with fuel consumed whose load cell is missing (coerced to 0): the
\* division by zero gives SFOC 0
C1_Witness ==
    /\ pc = "done"
    /\ \E i \in Rows :
        /\ uploaded.rows[i]["Average Load [kW]"] = NaN
        /\ FuelSum(i) > 0
        /\ Rhrs(i) > 0
        /\ Sfoc(i) = Num(0)

\* C2: the reason has the at-sea SFOC message exactly when the trimmed
\* report type is "At Sea", ME Rhrs > 12 strictly, and SFOC is outside
\* [150, 200]; At Sea with ME Rhrs 13, SFOC 210 and speed 10 (exhaust
\* readings equal) yields that message and no other.
C2_SfocRule ==
    pc = "done" =>
        \A i \in Rows :
            /\ Contains(i, MsgSfocSea)
                   <=> (TypeIs(i, AtSea) /\ Rhrs(i) > 12 /\ SfocOutside(i))
            /\ (/\ TypeIs(i, AtSea) /\ Rhrs(i) = 13 /\ SfocIs(i, 210) /\ Speed(i) = 10
                /\ \A j \in Units : RowGet(df.rows[i], ExhCol(j), Num(300)) = Num(300))
                   => ReasonOf(i) = <<MsgSfocSea>>

C2_Witness ==
    /\ pc = "done"
    /\ \E i \in Rows :
        /\ RowGet(uploaded.rows[i], "Report Type", NaN) = Str(<<" ">> \o AtSea \o <<" ">>)
        /\ Rhrs(i) = 13 /\ SfocIs(i, 210) /\ Speed(i) = 10
        /\ ReasonOf(i) = <<MsgSfocSea>>

\* the messages of rules 1-4 and the separator of the reason string
RuleMessages ==
    {MsgSfocSea, MsgSfocPort, MsgSpeedSea, MsgSpeedPort, MsgRhrs, "; "}
    \cup {MsgExh(j) : j \in Units}

MsgExceeds(x, y) ==
    "ME Rhrs (" \o ToString(x) \o ".00) exceeds Report Hours (" \o ToString(y)
    \o ".00) by " \o ToString(x - y) \o ".00h (margin: +-1h)"

Duration(i) == ReportDuration(uploaded.rows[i])

HasExceeds(i) == Contains(i, MsgExceeds(Rhrs(i), Duration(i)))

FlagColumns == Range(df.columns) \ (Range(uploaded.columns) \cup {"SFOC", "Reason"})

\* row i carries a true anomaly flag
AuxFlag(i) == \E c \in FlagColumns : df.rows[i][c] \notin {NaN, Num(0), Str(<<>>)}

\* row i's reason carries a message that is none of rules 1-4
HasAdvisory(i) == \E k \in DOMAIN ReasonOf(i) : ReasonOf(i)[k] \notin RuleMessages

ReadingUnits(i) ==
    {j \in Units : ExhCol(j) \in DOMAIN df.rows[i] /\ Reading(df.rows[i][ExhCol(j)])}

RECURSIVE TempSum(_, _)
TempSum(i, S) ==
    IF S = {} THEN 0
    ELSE LET j == CHOOSE x \in S : TRUE
         IN  df.rows[i][ExhCol(j)].n + TempSum(i, S \ {j})

\* unit j's reading differs by more than 50 from the mean of the readings
Deviates(i, j) ==
    LET R == ReadingUnits(i)
    IN  /\ j \in R
        /\ Abs(df.rows[i][ExhCol(j)].n * Cardinality(R) - TempSum(i, R)) > 50 * Cardinality(R)

\* C6 as claimed: when rule 3 applies, unit j is reported exactly when its
\* reading is present, non-zero and more than 50 away from the mean of the
\* row's present non-zero readings.
C6_Original ==
    pc = "done" =>
        \A i \in Rows :
            (TypeIs(i, AtSea) /\ Rhrs(i) > 12) =>
                \A j \in Units : Contains(i, MsgExh(j)) <=> Deviates(i, j)

\* the positions of the rows with a non-empty Reason
FailedRows == {i \in Rows : ReasonOf(i) # <<>>}

\* the dataset of uploaded row i alone
Alone(i) == [columns |-> uploaded.columns, rows |-> <<uploaded.rows[i]>>]

\* C7: the filtered output has exactly the rows of the annotated dataset
\* with a non-empty Reason, each with its Reason, in input order; the
\* annotated dataset has one row and one Reason per input row, in input
\* order (row i's Reason is the verdict of input row i).
C7_FilteredRows ==
    pc = "done" =>
        /\ Len(df.rows) = Len(uploaded.rows)
        /\ \A i \in Rows :
               /\ \A c \in Range(uploaded.columns) \ Range(numeric_cols) :
                      df.rows[i][c] = uploaded.rows[i][c]
               /\ df.rows[i]["Reason"] = validate_reports(Alone(i), <<>>).df.rows[1]["Reason"]
        /\ Len(failed.rows) = Len(failed.index)
        /\ {failed.index[k] : k \in DOMAIN failed.index} = FailedRows
        /\ \A k \in DOMAIN failed.index :
               /\ k > 1 => failed.index[k - 1] < failed.index[k]
               /\ failed.rows[k]["Reason"] = df.rows[failed.index[k]]["Reason"]

\* a passing row followed by a failing row
C7_Witness ==
    /\ pc = "done"
    /\ Len(df.rows) = 2
    /\ ReasonOf(1) = <<>>
    /\ failed.index = <<2>>
    /\ failed.rows[1]["Reason"] = Str(<<MsgSfocPort, "; ", MsgSpeedPort>>)

\* C8: validate_reports run on the annotated dataset it returned yields
\* the same SFOC and the same Reason for every row, and the same failed
\* rows.
C8_Idempotent ==
    (pc = "done" /\ runs = 2) =>
        /\ Len(df.rows) = Len(prev.df.rows)
        /\ \A i \in Rows :
               /\ df.rows[i]["SFOC"] = prev.df.rows[i]["SFOC"]
               /\ df.rows[i]["Reason"] = prev.df.rows[i]["Reason"]
        /\ failed.index = prev.failed.index
        /\ \A k \in DOMAIN failed.rows :
               failed.rows[k]["Reason"] = prev.failed.rows[k]["Reason"]

\* the second run, on a failed row whose load was uploaded as text
C8_Witness ==
    /\ pc = "done"
    /\ runs = 2
    /\ \E i \in Rows :
        /\ uploaded.rows[i]["Average Load [kW]"].k = "str"
        /\ Len(ReasonOf(i)) = 3
        /\ prev.df.rows[i]["Reason"] = df.rows[i]["Reason"]

\* C9 as claimed: with an expected column absent validate_reports raises
\* no lookup error, gives every row a verdict, and the rules that read
\* the absent column do not fire.
C9_Original ==
    runs >= 1 =>
        /\ pc = "done"
        /\ \A i \in Rows :
               /\ "Reason" \in DOMAIN df.rows[i]
               /\ ~HasCol(uploaded, "Avg. Speed")
                      => ~Contains(i, MsgSpeedSea) /\ ~Contains(i, MsgSpeedPort)

\* C10 as claimed: every raw input cell of the annotated dataset (the
\* object passed in) equals the cell that was supplied.
C10_Original ==
    runs = 1 =>
        \A i \in DOMAIN uploaded.rows :
            \A c \in Range(uploaded.columns) : df.rows[i][c] = uploaded.rows[i][c]

\* the run of main on the uploaded dataset has shown its metrics
Shown == pc = "done" /\ runs = 1

\* no row of the dataset fails a rule
NoRowFails == \A i \in Rows : ReasonOf(i) = <<>>

\* C11 as claimed: for every dataset in which no row fails a rule, the
\* dataset with zero rows included, the filtered output is empty and the
\* reported pass rate is 100%.
C11_Original ==
    (Shown /\ NoRowFails) =>
        /\ failed.rows = <<>>
        /\ pass_rate(Len(uploaded.rows), Len(failed.rows)) = Num(100)
        /\ PassRateMetric = <<"1", "0", "0", ".", "0", "%">>

\* the sheet with the uploaded column schema and no data row
HeaderOnly == [columns |-> uploaded.columns, rows |-> <<>>]

NoDuplicate(s) == \A p, q \in DOMAIN s : s[p] = s[q] => p = q

\* C12 as claimed: the columns of the filtered output depend on the column
\* schema only (they are those of the output for the sheet of the same
\* schema without rows, whatever the row values and the rules that fired);
\* they include SFOC and Reason, hold no duplicate, and Ship Name is first
\* whenever it is a column of the input.
C12_Original ==
    Shown =>
        /\ failed.columns = validate_reports(HeaderOnly, <<>>).failed.columns
        /\ {"SFOC", "Reason"} \subseteq Range(failed.columns)
        /\ NoDuplicate(failed.columns)
        /\ HasCol(uploaded, "Ship Name") => failed.columns[1] = "Ship Name"

\* the column schema of the dataset the last run was given
InputColumns == IF runs = 2 THEN prev.df.columns ELSE uploaded.columns

\* the part of the filtered columns that the schema fixes
SchemaColumns ==
    SelectSeq(context_cols, LAMBDA c : c \in Range(InputColumns))
        \o SelectSeq([j \in Units |-> ExhCol(j)], LAMBDA c : c \in Range(InputColumns))

\* the checked columns, outside SchemaColumns, on which some row failed
FiredColumns ==
    {c \in {"SFOC"} : \E i \in Rows : Contains(i, MsgSfocSea) \/ Contains(i, MsgSfocPort)}
        \cup {c \in {"Avg. Speed"} : \E i \in Rows : Contains(i, MsgSpeedSea) \/ Contains(i, MsgSpeedPort)}

\* C12 amended: the filtered columns are the context columns present, then
\* the exhaust columns present in unit order (both fixed by the schema),
\* then SFOC and Avg. Speed, each only when some row of the dataset failed
\* a rule on it and in either order, then Reason; no column is repeated and
\* Ship Name is first whenever it is a column of the input.
C12_FailedColumns ==
    pc = "done" =>
        /\ \E order \in Orderings(FiredColumns) :
               failed.columns = SchemaColumns \o order \o <<"Reason">>
        /\ NoDuplicate(failed.columns)
        /\ "Ship Name" \in Range(InputColumns) => failed.columns[1] = "Ship Name"

\* Ship Name is not the first input column, rows failed on the running
\* hours (a context column), on the speed and on SFOC, and Avg. Speed
\* comes before SFOC in the output
C12_Witness ==
    /\ Shown
    /\ uploaded.columns[1] # "Ship Name"
    /\ failed.columns[1] = "Ship Name"
    /\ \E i \in Rows : Contains(i, MsgRhrs)
    /\ \E p \in DOMAIN failed.columns :
           /\ failed.columns[p] = "Avg. Speed"
           /\ failed.columns[p + 1] = "SFOC"
           /\ failed.columns[p + 2] = "Reason"

\* C13 as claimed: ME running hours must be below 25: every row whose ME
\* Rhrs is not strictly less than 25 (exactly 25 included), whatever its
\* report type, gets the "ME Rhrs > 25" reason and is in the filtered
\* output, and no row with ME Rhrs < 25 gets that reason.
C13_Original ==
    pc = "done" =>
        \A i \in Rows :
            IF Rhrs(i) < 25
            THEN ~Contains(i, MsgRhrs)
            ELSE /\ Contains(i, MsgRhrs)
                 /\ \E k \in DOMAIN failed.index : failed.index[k] = i

\* the rule-3 messages of row i, in the order of its reason
ExhMessages(i) == SelectSeq(ReasonOf(i), LAMBDA m : \E j \in Units : m = MsgExh(j))

\* the units of row i whose reading deviates, in increasing unit order
OffendingUnits(i) == SelectSeq([j \in Units |-> j], LAMBDA j : Deviates(i, j))

\* C14 as claimed: the number in a rule-3 message is the unit number of
\* the offending column, also when unit columns are absent from the
\* schema; a row that rule 3 applies to gets one message per offending
\* unit, in increasing unit order.
C14_Original ==
    pc = "done" =>
        \A i \in Rows :
            /\ \A k \in DOMAIN ExhMessages(i) :
                   \E j \in Units : ExhMessages(i)[k] = MsgExh(j) /\ Deviates(i, j)
            /\ (TypeIs(i, AtSea) /\ Rhrs(i) > 12) =>
                   ExhMessages(i) = [k \in DOMAIN OffendingUnits(i) |-> MsgExh(OffendingUnits(i)[k])]

====
